---- MODULE Spec2Model ----
(***************************************************************************)
(* A model of main.py: the observer registry (ConnectionManager), the      *)
(* observer sessions (websocket_endpoint), the event formatter             *)
(* (format_log, log_and_broadcast) and the five request handlers.          *)
(*                                                                         *)
(* Every coroutine is a process.  A step of a process is the code that     *)
(* runs between two awaits, which asyncio runs without interleaving.       *)
(* The awaits are: websocket.accept(), websocket.receive_text(), the       *)
(* asyncio.gather over the send_text coroutines, and client.post().        *)
(***************************************************************************)
EXTENDS Integers, Sequences, FiniteSets, TLC

(***************************************************************************)
(* Bounds of the model.                                                    *)
(***************************************************************************)
NumObservers == 2           \* observers that connect in HubSpec
NumPipelineObservers == 1   \* observers that connect in Spec
NumTasks == 2               \* handler invocations that may run concurrently

HubSockets == 1..NumObservers
PipelineSockets == 1..NumPipelineObservers
Sockets == HubSockets \cup PipelineSockets

\* the handler invocations: Spec and HubSpec follow the first one, the
\* specifications of concurrent requests all of them
Tasks == 1..NumTasks

Usernames == {"alice"}
\* UserCredentials.password and UserUpdate.new_password are any str: pydantic
\* accepts the empty one
Passwords == {"", "pw1", "pw2"}
Prompts == {"hello"}

(***************************************************************************)
(* Python values.  A str built by an f-string is the sequence of its       *)
(* parts; Optional[X] is a sequence of length 0 (None) or 1; a dict is a   *)
(* function from its keys; an ordered dict (a log entry) is the sequence   *)
(* of its <<key, value>> items in insertion order.                         *)
(***************************************************************************)
None == <<>>
Some(v) == <<v>>

\* the dict with nothing excluded
ExcludeNothing(d, keys) == d

\* dict.dict(exclude=keys) of a pydantic model
Exclude(d, keys) == [k \in (DOMAIN d) \ keys |-> d[k]]

\* UserCredentials.dict(), LLMPrompt.dict()
UserCredentialsDict(u, p) == [username |-> <<u>>, password |-> <<p>>]
LLMPromptDict(u, q) == [username |-> <<u>>, prompt |-> <<q>>]

\* truthiness of an Optional[str], Optional[int], Optional[dict]
TruthyStr(o) == Len(o) = 1 /\ o[1] # ""
TruthyInt(o) == Len(o) = 1 /\ o[1] # 0
TruthyDict(o) == Len(o) = 1 /\ DOMAIN o[1] # {}
TruthyText(o) == Len(o) = 1 /\ o[1] # <<>>

\* an item for every parameter, None where it was not supplied
ItemAlways(cond, key, o) == <<<<key, IF o = None THEN None ELSE o[1]>>>>

Item(cond, key, o) == IF cond THEN <<<<key, o[1]>>>> ELSE <<>>

format_log(source, method, url, status, request_payload, response_payload, detail) ==
    <<<<"source", source>>>>
    \o Item(TruthyStr(method), "method", method)
    \o Item(TruthyStr(url), "url", url)
    \o Item(TruthyInt(status), "status", status)
    \o Item(TruthyDict(request_payload), "request_payload", request_payload)
    \o Item(TruthyDict(response_payload), "response_payload", response_payload)
    \o Item(TruthyText(detail), "detail", detail)

\* log_data["timestamp"] = datetime.now().isoformat(); json.dumps(log_data)
\* keeps the items and their order, so the message is the item sequence.
Now == "now"
Serialize(log_data) ==
    IF \E i \in 1..Len(log_data) : log_data[i][1] = "timestamp"
    THEN [i \in 1..Len(log_data) |->
            IF log_data[i][1] = "timestamp" THEN <<"timestamp", Now>> ELSE log_data[i]]
    ELSE log_data \o <<<<"timestamp", Now>>>>

HasField(e, k) == \E i \in 1..Len(e) : e[i][1] = k
GetField(e, k) == e[CHOOSE i \in 1..Len(e) : e[i][1] = k][2]
SourceOf(e) == GetField(e, "source")


(***************************************************************************)
(* State.                                                                  *)
(***************************************************************************)
VARIABLES
    users_db,            \* the directory: a dict username -> password
    active_connections,  \* manager.active_connections, a list of sockets
    session,             \* where each websocket_endpoint coroutine stands
    transport,           \* each socket's connection as the peer left it
    inbox,               \* what each observer has received, in order
    disconnects,         \* how often disconnect(w) was called for socket w
    task                 \* the handler invocations

vars == <<users_db, active_connections, session, transport, inbox, disconnects, task>>

\* what client.post() may resolve to: a transport error (httpx.RequestError,
\* which includes the timeout), or a response with a status and a body
NoReply == [kind |-> "none", status |-> 0, body |-> "none"]
TransportError == [kind |-> "request_error", status |-> 0, body |-> "none"]
PeerStatuses == {200, 302, 500}
PeerBodies == {"json_response", "json_other", "json_list", "text"}
PeerResponses == [kind : {"response"}, status : PeerStatuses, body : PeerBodies]
PeerReplies == {TransportError} \cup PeerResponses

NoPassword == "n/a"
NoPrompt == "n/a"

IdleTask ==
    [pc |-> "idle", endpoint |-> "none", username |-> "none", password |-> NoPassword,
     prompt |-> NoPrompt, reply |-> NoReply, status |-> 0, body |-> <<>>,
     emitted |-> <<>>, message |-> <<>>, snapshot |-> <<>>, results |-> <<>>,
     errors |-> {}, broadcast_raised |-> FALSE, log_raised |-> FALSE]

\* the positions at which a handler awaits a log_and_broadcast
BroadcastPcs == {"req", "ollama_req", "ollama_resp", "ollama_err", "server_err", "resp"}

Range(s) == {s[i] : i \in 1..Len(s)}

(***************************************************************************)
(* ConnectionManager.                                                      *)
(***************************************************************************)
\* list.remove(x): drops the first item equal to x
RECURSIVE ListRemove(_, _)
ListRemove(l, x) ==
    IF l = <<>> THEN <<>>
    ELSE IF Head(l) = x THEN Tail(l)
    ELSE <<Head(l)>> \o ListRemove(Tail(l), x)

\* disconnect without its membership test
disconnect_unguarded(conns, w) ==
    [conns |-> ListRemove(conns, w), raised |-> w \notin Range(conns)]

\* disconnect that leaves the list as it is
disconnect_nothing(conns, w) == [conns |-> conns, raised |-> FALSE]

\* disconnect(websocket): the list afterwards, and whether the call raised
\* (list.remove raises ValueError for an absent item)
disconnect(conns, w) ==
    IF w \in Range(conns)
    THEN [conns |-> ListRemove(conns, w), raised |-> FALSE]
    ELSE [conns |-> conns, raised |-> FALSE]

\* connect(websocket), after the accept: the list afterwards
connect(conns, w) == Append(conns, w)

\* awaiting asyncio.gather(*sends, return_exceptions=...): whether it raises
gather_raises(results, return_exceptions) ==
    ~return_exceptions /\ \E i \in 1..Len(results) : results[i] = "exc"

\* a loop over every result, indexing the list
index_len(results, conns) == Len(results)

\* zip(results, self.active_connections) stops at the shorter of the two:
\* the number of iterations of the loop over it
zip_len(results, conns) ==
    IF Len(results) <= Len(conns) THEN Len(results) ELSE Len(conns)

\* whether that loop raises (an index past the end of the list would)
loop_raises(results, conns) == zip_len(results, conns) > Len(conns)

\* broadcast with the gather's exceptions propagating (return_exceptions=False)
broadcast_raises_propagating(results, conns) ==
    gather_raises(results, FALSE) \/ loop_raises(results, conns)

\* whether broadcast raises into its caller: it awaits the gather with
\* return_exceptions=True, then runs the loop
broadcast_raises(results, conns) ==
    gather_raises(results, TRUE) \/ loop_raises(results, conns)

\* the loop's log lines, as the pairs
\* <<connection named in the log line, connection whose send failed>>
broadcast_errors(results, snapshot, conns) ==
    {<<conns[i], snapshot[i]>> :
        i \in {j \in 1..zip_len(results, conns) : j <= Len(conns) /\ results[j] = "exc"}}

\* the registry with the disconnect in that loop enabled
broadcast_registry_pruning(results, conns) ==
    LET failed == {conns[i] : i \in {j \in 1..zip_len(results, conns) :
                                        j <= Len(conns) /\ results[j] = "exc"}}
    IN  SelectSeq(conns, LAMBDA c : c \notin failed)

\* the registry after that loop (the disconnect in it is commented out)
broadcast_registry(results, conns) == conns

\* log_and_broadcast's "except Exception": whether a raise of broadcast
\* reaches the handler (it is logged and swallowed)
log_and_broadcast_raises(broadcast_raised) == FALSE

\* log_and_broadcast(log_data) up to the await of the gather: the message is
\* serialized once and one send_text is started for every connection in the list
log_and_broadcast(tk, log_data, conns, pc) ==
    LET msg == Serialize(log_data) IN
    [tk EXCEPT !.pc = pc,
               !.emitted = Append(@, msg),
               !.message = msg,
               !.snapshot = conns,
               !.results = [i \in 1..Len(conns) |-> "pending"]]


(***************************************************************************)
(* The request handlers.  Each operator below is the code of a handler     *)
(* between two awaits: it takes the task and the state it reads and gives  *)
(* the task at its next await and the directory it leaves.                 *)
(***************************************************************************)
Step(tk, db) == [task |-> tk, db |-> db]

InDb(u, db) == u \in DOMAIN db
DbSet(db, u, p) == [k \in (DOMAIN db) \cup {u} |-> IF k = u THEN p ELSE db[k]]
\* dict.get(u): None for an absent key
DbGet(db, u) == IF u \in DOMAIN db THEN Some(db[u]) ELSE None

UrlPath(endpoint, u) ==
    CASE endpoint = "register" -> "/register/"
      [] endpoint = "login" -> "/login/"
      [] endpoint = "get_user" -> "/user/" \o u \o "/"
      [] endpoint = "update_password" -> "/user/" \o u \o "/"
      [] endpoint = "llm_generate" -> "/llm/generate"

Method(endpoint) ==
    CASE endpoint = "get_user" -> "GET"
      [] endpoint = "update_password" -> "PUT"
      [] OTHER -> "POST"

OllamaUrl == "http://localhost:11434/api/generate"

\* the request_payload of each handler's client_request event
ClientRequestPayload(endpoint, u, p, q) ==
    CASE endpoint = "register" -> Some(Exclude(UserCredentialsDict(u, p), {"password"}))
      [] endpoint = "login" -> Some(Exclude(UserCredentialsDict(u, p), {"password"}))
      [] endpoint = "get_user" -> None
      [] endpoint = "update_password" -> Some([username |-> <<u>>])
      [] endpoint = "llm_generate" -> Some(LLMPromptDict(u, q))

\* the first lines of every handler: the client_request event
client_request(tk, conns) ==
    log_and_broadcast(tk,
        format_log("client_request", Some(Method(tk.endpoint)),
                   Some(UrlPath(tk.endpoint, tk.username)), None,
                   ClientRequestPayload(tk.endpoint, tk.username, tk.password, tk.prompt),
                   None, None),
        conns, "req")

\* the server_response event and the result the caller gets after it
server_response(tk, status, payload, conns) ==
    log_and_broadcast([tk EXCEPT !.status = status, !.body = payload],
        format_log("server_response", Some(Method(tk.endpoint)),
                   Some(UrlPath(tk.endpoint, tk.username)), Some(status),
                   None, Some(payload), None),
        conns, "resp")

Detail(text) == [detail |-> <<text>>]
Success(parts) == [status |-> <<"success">>, message |-> parts]

\* register_user without the check of the directory
register_user_overwrite(tk, db, conns) ==
    Step(server_response(tk, 200,
             Success(<<"User '", tk.username, "' registered">>), conns),
         DbSet(db, tk.username, tk.password))

register_user(tk, db, conns) ==
    IF InDb(tk.username, db)
    THEN Step(server_response(tk, 400, Detail("Username already registered"), conns), db)
    ELSE Step(server_response(tk, 200,
                  Success(<<"User '", tk.username, "' registered">>), conns),
              DbSet(db, tk.username, tk.password))

login_user(tk, db, conns) ==
    LET stored_password == DbGet(db, tk.username) IN
    IF ~TruthyStr(stored_password) \/ stored_password[1] # tk.password
    THEN Step(server_response(tk, 401, Detail("Invalid username or password"), conns), db)
    ELSE Step(server_response(tk, 200,
                  Success(<<"User '", tk.username, "' logged in">>), conns), db)

get_user_info(tk, db, conns) ==
    IF ~InDb(tk.username, db)
    THEN Step(server_response(tk, 404, Detail("User not found"), conns), db)
    ELSE Step(server_response(tk, 200, [username |-> <<tk.username>>], conns), db)

update_user_password(tk, db, conns) ==
    IF ~InDb(tk.username, db)
    THEN Step(server_response(tk, 404, Detail("User not found"), conns), db)
    ELSE Step(server_response(tk, 200,
                  Success(<<"Password for user '", tk.username, "' updated">>), conns),
              DbSet(db, tk.username, tk.password))

OllamaPayload(q) == [model |-> <<"llama2">>, prompt |-> <<q>>, stream |-> <<"false">>]

\* generate_llm_response without the check of the directory
generate_llm_response_unchecked(tk, db, conns) ==
    Step(log_and_broadcast(tk,
             format_log("ollama_request", Some("POST"), Some(OllamaUrl), None,
                        Some(OllamaPayload(tk.prompt)), None, None),
             conns, "ollama_req"), db)

\* generate_llm_response from the user check to the ollama_request event
generate_llm_response(tk, db, conns) ==
    IF ~InDb(tk.username, db)
    THEN Step(server_response(tk, 401,
                  Detail("User not found or not authenticated"), conns), db)
    ELSE Step(log_and_broadcast(tk,
                  format_log("ollama_request", Some("POST"), Some(OllamaUrl), None,
                             Some(OllamaPayload(tk.prompt)), None, None),
                  conns, "ollama_req"), db)


\* response.json() of the first try block, or the raw text when it raises
\* json.JSONDecodeError
OllamaResponsePayload(body) ==
    CASE body = "json_response" -> Some([response |-> <<"generated text">>])
      [] body = "json_other" -> Some([error |-> <<"model not loaded">>])
      [] body = "json_list" -> Some(<<>>)
      [] body = "text" -> Some([raw_response |-> <<"raw body">>])

\* on_post with the RequestError branch that emits no ollama_error event
on_post_unlogged(tk, reply, conns) ==
    IF reply.kind = "request_error"
    THEN server_response([tk EXCEPT !.reply = reply], 503,
                         Detail("LLM service unavailable"), conns)
    ELSE log_and_broadcast([tk EXCEPT !.reply = reply],
             format_log("ollama_response", None, Some(OllamaUrl), Some(reply.status),
                        None, OllamaResponsePayload(reply.body), None),
             conns, "ollama_resp")

\* generate_llm_response once client.post() has resolved: the except branch
\* of httpx.RequestError, or the ollama_response event
on_post(tk, reply, conns) ==
    IF reply.kind = "request_error"
    THEN log_and_broadcast([tk EXCEPT !.reply = reply],
             format_log("ollama_error", None, Some(OllamaUrl), None, None, None,
                        Some(<<"Error requesting Ollama: ", "exc">>)),
             conns, "ollama_err")
    ELSE log_and_broadcast([tk EXCEPT !.reply = reply],
             format_log("ollama_response", None, Some(OllamaUrl), Some(reply.status),
                        None, OllamaResponsePayload(reply.body), None),
             conns, "ollama_resp")

\* raise_for_status that raises for the 4xx and 5xx statuses only
raise_for_status_errors_only(status) == 400 <= status /\ status <= 599

\* response.raise_for_status()
raise_for_status(status) == ~(200 <= status /\ status <= 299)

\* the second response.json() and ollama_data.get(...): whether they raise
\* (JSONDecodeError for a body that is no JSON, AttributeError for a list)
parse_raises(body) == body \in {"text", "json_list"}

generated_text(body) ==
    IF body = "json_response" THEN <<"generated text">>
    ELSE <<"Error: No 'response' field found in Ollama output.">>

\* generate_llm_response after the ollama_response event
after_ollama_response(tk, conns) ==
    IF raise_for_status(tk.reply.status)
    THEN server_response(tk, 502, Detail("Error from LLM service"), conns)
    ELSE IF parse_raises(tk.reply.body)
    THEN log_and_broadcast(tk,
             format_log("server_error", Some("POST"), Some(UrlPath(tk.endpoint, tk.username)),
                        None, None, None,
                        Some(<<"Unexpected error during LLM generation: ", "exc">>)),
             conns, "server_err")
    ELSE server_response(tk, 200, [text |-> generated_text(tk.reply.body)], conns)

\* the RequestError branch without its server_response
after_ollama_error_silent(tk, conns) == [tk EXCEPT !.pc = "done", !.status = 503]

after_ollama_error(tk, conns) ==
    server_response(tk, 503, Detail("LLM service unavailable"), conns)

\* the last except branch with the server_error event emitted a second time
\* in place of the server_response
after_server_error_twice(tk, conns) ==
    log_and_broadcast([tk EXCEPT !.status = 500],
        format_log("server_error", Some("POST"), Some(UrlPath(tk.endpoint, tk.username)),
                   None, None, None,
                   Some(<<"Unexpected error during LLM generation: ", "exc">>)),
        conns, "resp")

after_server_error(tk, conns) ==
    server_response(tk, 500, Detail("Internal server error"), conns)

\* each handler after its client_request event
AfterClientRequest(tk, db, conns) ==
    CASE tk.endpoint = "register" -> register_user(tk, db, conns)
      [] tk.endpoint = "login" -> login_user(tk, db, conns)
      [] tk.endpoint = "get_user" -> get_user_info(tk, db, conns)
      [] tk.endpoint = "update_password" -> update_user_password(tk, db, conns)
      [] tk.endpoint = "llm_generate" -> generate_llm_response(tk, db, conns)

\* the handlers with register_user's write moved behind the await of its
\* server_response event
ContinueDeferredWrite(tk, db, conns) ==
    CASE tk.pc = "req" /\ tk.endpoint = "register" ->
            Step(register_user(tk, db, conns).task, db)
      [] tk.pc = "req" /\ tk.endpoint # "register" -> AfterClientRequest(tk, db, conns)
      [] tk.pc = "ollama_req" -> Step([tk EXCEPT !.pc = "post"], db)
      [] tk.pc = "ollama_resp" -> Step(after_ollama_response(tk, conns), db)
      [] tk.pc = "ollama_err" -> Step(after_ollama_error(tk, conns), db)
      [] tk.pc = "server_err" -> Step(after_server_error(tk, conns), db)
      [] tk.pc = "resp" ->
            Step([tk EXCEPT !.pc = "done"],
                 IF tk.endpoint = "register" /\ tk.status = 200
                 THEN DbSet(db, tk.username, tk.password) ELSE db)

\* the handler's code from the return of one log_and_broadcast to its next await
Continue(tk, db, conns) ==
    CASE tk.pc = "req" -> AfterClientRequest(tk, db, conns)
      [] tk.pc = "ollama_req" -> Step([tk EXCEPT !.pc = "post"], db)
      [] tk.pc = "ollama_resp" -> Step(after_ollama_response(tk, conns), db)
      [] tk.pc = "ollama_err" -> Step(after_ollama_error(tk, conns), db)
      [] tk.pc = "server_err" -> Step(after_server_error(tk, conns), db)
      [] tk.pc = "resp" -> Step([tk EXCEPT !.pc = "done"], db)

(***************************************************************************)
(* Actions.                                                                *)
(***************************************************************************)
AllDbs == UNION {[S -> Passwords] : S \in SUBSET Usernames}

Init ==
    /\ users_db \in AllDbs
    /\ active_connections = <<>>
    /\ session = [w \in Sockets |-> "none"]
    /\ transport = [w \in Sockets |-> "open"]
    /\ inbox = [w \in Sockets |-> <<>>]
    /\ disconnects = [w \in Sockets |-> 0]
    /\ task = [t \in Tasks |-> IdleTask]

\* a request arrives: the handler runs to its first await
Call(t, endpoint, u, p, q) ==
    /\ task[t].pc = "idle"
    /\ task' = [task EXCEPT ![t] =
                  client_request([IdleTask EXCEPT !.endpoint = endpoint, !.username = u,
                                                  !.password = p, !.prompt = q],
                                 active_connections)]
    /\ UNCHANGED <<users_db, active_connections, session, transport, inbox, disconnects>>

CallRegister(t) ==
    \E u \in Usernames, p \in Passwords : Call(t, "register", u, p, NoPrompt)
CallLogin(t) ==
    \E u \in Usernames, p \in Passwords : Call(t, "login", u, p, NoPrompt)
CallGetUser(t) ==
    \E u \in Usernames : Call(t, "get_user", u, NoPassword, NoPrompt)
CallUpdatePassword(t) ==
    \E u \in Usernames, p \in Passwords : Call(t, "update_password", u, p, NoPrompt)
CallGenerate(t) ==
    \E u \in Usernames, q \in Prompts : Call(t, "llm_generate", u, NoPassword, q)

\* one send_text of the gather completes: the message reaches the observer
SendOk(t, i) ==
    /\ task[t].pc \in BroadcastPcs
    /\ i \in 1..Len(task[t].results)
    /\ task[t].results[i] = "pending"
    /\ transport[task[t].snapshot[i]] = "open"
    /\ inbox' = [inbox EXCEPT ![task[t].snapshot[i]] =
                    Append(@, [task |-> t, msg |-> task[t].message])]
    /\ task' = [task EXCEPT ![t].results[i] = "ok"]
    /\ UNCHANGED <<users_db, active_connections, session, transport, disconnects>>

\* one send_text of the gather raises: the connection is gone
SendRaise(t, i) ==
    /\ task[t].pc \in BroadcastPcs
    /\ i \in 1..Len(task[t].results)
    /\ task[t].results[i] = "pending"
    /\ transport[task[t].snapshot[i]] = "broken"
    /\ task' = [task EXCEPT ![t].results[i] = "exc"]
    /\ UNCHANGED <<users_db, active_connections, session, transport, inbox, disconnects>>

\* the gather not awaited: the handler goes on at once and the sends it has
\* not waited for are dropped
ResolvedWithoutWaiting(tk) == TRUE

Resolved(tk) == \A i \in 1..Len(tk.results) : tk.results[i] # "pending"

\* Resume with a gather that raises the first exception of a send
\* (return_exceptions=False) and a log_and_broadcast that lets it through
ResumeFailFast(t) ==
    LET tk == task[t]
        failed == gather_raises(tk.results, FALSE)
        tk1 == [tk EXCEPT !.broadcast_raised = @ \/ failed,
                          !.log_raised = @ \/ failed,
                          !.message = <<>>, !.snapshot = <<>>, !.results = <<>>]
        nxt == IF failed
               THEN Step([tk1 EXCEPT !.pc = "crashed", !.status = 500], users_db)
               ELSE Continue(tk1, users_db, active_connections)
    IN  /\ tk.pc \in BroadcastPcs
        /\ Resolved(tk)
        /\ task' = [task EXCEPT ![t] = nxt.task]
        /\ users_db' = nxt.db
        /\ UNCHANGED <<active_connections, session, transport, inbox, disconnects>>

\* the gather is done: broadcast and log_and_broadcast finish and the
\* handler runs on to its next await
Resume(t) ==
    LET tk == task[t]
        braised == broadcast_raises(tk.results, active_connections)
        lraised == log_and_broadcast_raises(braised)
        conns == broadcast_registry(tk.results, active_connections)
        tk1 == [tk EXCEPT !.errors = IF braised THEN {}
                                     ELSE broadcast_errors(tk.results, tk.snapshot,
                                                           active_connections),
                          !.broadcast_raised = @ \/ braised,
                          !.log_raised = @ \/ lraised,
                          !.message = <<>>, !.snapshot = <<>>, !.results = <<>>]
        nxt == IF lraised
               THEN Step([tk1 EXCEPT !.pc = "crashed", !.status = 500], users_db)
               ELSE Continue(tk1, users_db, conns)
    IN  /\ tk.pc \in BroadcastPcs
        /\ Resolved(tk)
        /\ task' = [task EXCEPT ![t] = nxt.task]
        /\ users_db' = nxt.db
        /\ active_connections' = conns
        /\ UNCHANGED <<session, transport, inbox, disconnects>>

\* client.post() resolves
PeerReply(t) ==
    /\ task[t].pc = "post"
    /\ \E reply \in PeerReplies :
          task' = [task EXCEPT ![t] = on_post(task[t], reply, active_connections)]
    /\ UNCHANGED <<users_db, active_connections, session, transport, inbox, disconnects>>

\* an observer opens a connection: websocket_endpoint awaits the accept
WsOpen(w) ==
    /\ session[w] = "none"
    /\ session' = [session EXCEPT ![w] = "accepting"]
    /\ UNCHANGED <<users_db, active_connections, transport, inbox, disconnects, task>>

\* websocket.accept() returns: connect appends, the read loop starts
AcceptOk(w) ==
    /\ session[w] = "accepting"
    /\ transport[w] # "broken"
    /\ active_connections' = connect(active_connections, w)
    /\ session' = [session EXCEPT ![w] = "receiving"]
    /\ UNCHANGED <<users_db, transport, inbox, disconnects, task>>

\* connect with the append in a finally clause
AcceptRaiseRegisters(w) ==
    /\ session[w] = "accepting"
    /\ transport[w] = "broken"
    /\ active_connections' = connect(active_connections, w)
    /\ session' = [session EXCEPT ![w] = "failed"]
    /\ UNCHANGED <<users_db, transport, inbox, disconnects, task>>

\* websocket.accept() raises: connect and websocket_endpoint end with it
AcceptRaise(w) ==
    /\ session[w] = "accepting"
    /\ transport[w] = "broken"
    /\ session' = [session EXCEPT ![w] = "failed"]
    /\ UNCHANGED <<users_db, active_connections, transport, inbox, disconnects, task>>

\* receive_text() returns a message: the loop reads again
ReceiveText(w) ==
    /\ session[w] = "receiving"
    /\ transport[w] = "open"
    /\ UNCHANGED vars

\* receive_text() raises WebSocketDisconnect or another Exception:
\* either except branch calls disconnect, and the coroutine ends
ReceiveRaise(w) ==
    LET d == disconnect(active_connections, w) IN
    /\ session[w] = "receiving"
    /\ transport[w] = "broken"
    /\ active_connections' = d.conns
    /\ disconnects' = [disconnects EXCEPT ![w] = @ + 1]
    /\ session' = [session EXCEPT ![w] = IF d.raised THEN "failed" ELSE "closed"]
    /\ UNCHANGED <<users_db, transport, inbox, task>>

\* the observer closes its connection, or the connection breaks
ClientClose(w) ==
    /\ session[w] \in {"accepting", "receiving"}
    /\ transport[w] # "broken"
    /\ transport' = [transport EXCEPT ![w] = "broken"]
    /\ UNCHANGED <<users_db, active_connections, session, inbox, disconnects, task>>

\* the observer stops reading: sends to it no longer complete
ClientStall(w) ==
    /\ session[w] = "receiving"
    /\ transport[w] = "open"
    /\ transport' = [transport EXCEPT ![w] = "stalled"]
    /\ UNCHANGED <<users_db, active_connections, session, inbox, disconnects, task>>

(***************************************************************************)
(* Specifications.  The code is the same in all of them; they differ in    *)
(* what the clients do.  Spec: one request to any endpoint, with up to     *)
(* NumPipelineObservers observers.  HubSpec: one get-user request (to the  *)
(* hub every request is a sequence of messages) with up to NumObservers    *)
(* observers.  FairHubSpec: HubSpec with the progress asyncio gives: a     *)
(* coroutine whose await has completed runs, a send to a connection that   *)
(* is open completes, a send or read on a broken connection raises.        *)
(***************************************************************************)
TaskStep(t) ==
    \/ \E i \in Sockets : SendOk(t, i)
    \/ \E i \in Sockets : SendRaise(t, i)
    \/ Resume(t)
    \/ PeerReply(t)

SessionStep(w) ==
    \/ AcceptOk(w)
    \/ AcceptRaise(w)
    \/ ReceiveText(w)
    \/ ReceiveRaise(w)

ClientStep(w) ==
    \/ WsOpen(w)
    \/ ClientClose(w)
    \/ ClientStall(w)

AnyCall(t) ==
    \/ CallRegister(t)
    \/ CallLogin(t)
    \/ CallGetUser(t)
    \/ CallUpdatePassword(t)
    \/ CallGenerate(t)

Next ==
    \/ AnyCall(1)
    \/ TaskStep(1)
    \/ \E w \in PipelineSockets : SessionStep(w)
    \/ \E w \in PipelineSockets : ClientStep(w)

Spec == Init /\ [][Next]_vars

HubNext ==
    \/ CallGetUser(1)
    \/ \E i \in Sockets : SendOk(1, i)
    \/ \E i \in Sockets : SendRaise(1, i)
    \/ Resume(1)
    \/ \E w \in HubSockets : SessionStep(w)
    \/ \E w \in HubSockets : ClientStep(w)

HubSpec == Init /\ [][HubNext]_vars

HubFairness ==
    /\ WF_vars(Resume(1))
    /\ \A i \in Sockets : WF_vars(SendOk(1, i)) /\ WF_vars(SendRaise(1, i))
    /\ \A w \in HubSockets : WF_vars(ReceiveRaise(w))

FairHubSpec == HubSpec /\ HubFairness

(***************************************************************************)
(* DirectorySpec: up to NumTasks requests to the endpoints that check a    *)
(* credential or write one, running concurrently from the empty directory  *)
(* the module starts with, with no observer connected.                     *)
(***************************************************************************)
DirectoryUsernames == {"alice", "bob"}
DirectoryEndpoints == {"register", "login", "update_password"}

DirectoryInit == Init /\ users_db = <<>>

DirectoryCall(t) ==
    \E endpoint \in DirectoryEndpoints, u \in DirectoryUsernames, p \in Passwords :
        Call(t, endpoint, u, p, NoPrompt)

DirectoryNext ==
    \/ \E t \in Tasks : DirectoryCall(t)
    \/ \E t \in Tasks : Resume(t)

DirectorySpec == DirectoryInit /\ [][DirectoryNext]_vars

(***************************************************************************)
(* ConcurrentSpec: up to NumTasks requests running concurrently while up   *)
(* to NumPipelineObservers observers connect, stall and leave.  The        *)
(* requests are get-user requests (two events each); the first may be an   *)
(* LLM generate instead (up to five events).                               *)
(***************************************************************************)
ConcurrentNext ==
    \/ \E t \in Tasks : CallGetUser(t)
    \/ CallGenerate(1)
    \/ PeerReply(1)
    \/ \E t \in Tasks, i \in Sockets : SendOk(t, i)
    \/ \E t \in Tasks, i \in Sockets : SendRaise(t, i)
    \/ \E t \in Tasks : Resume(t)
    \/ \E w \in PipelineSockets : SessionStep(w)
    \/ \E w \in PipelineSockets : ClientStep(w)

ConcurrentSpec == Init /\ [][ConcurrentNext]_vars

(***************************************************************************)
(* Properties.                                                             *)
(***************************************************************************)
\* observer w has received message m of task t
Delivered(w, t, m) ==
    \E k \in 1..Len(inbox[w]) : inbox[w][k] = [task |-> t, msg |-> m]

\* the gather of task t's broadcast has completed
GatherDone(t) == task[t].pc \in BroadcastPcs /\ Resolved(task[t])

Tags(t) == [k \in 1..Len(task[t].emitted) |-> SourceOf(task[t].emitted[k])]

\* C1: in a broadcast in which some sends raise, every observer whose send
\* did not raise has the message once the sends are done, and neither
\* broadcast nor log_and_broadcast ever raises into its caller.
C1_PartialFailureIsolated ==
    \A t \in Tasks :
        /\ ~task[t].broadcast_raised
        /\ ~task[t].log_raised
        /\ task[t].pc # "crashed"
        /\ GatherDone(t) =>
              \A i \in 1..Len(task[t].results) :
                  task[t].results[i] = "ok" =>
                      Delivered(task[t].snapshot[i], t, task[t].message)

\* a request has returned whose last broadcast had a send that raised and
\* a send that delivered
C1_Witness ==
    \E t \in Tasks :
        /\ task[t].pc = "done"
        /\ task[t].errors # {}
        /\ \E w \in Sockets :
              Delivered(w, t, task[t].emitted[Len(task[t].emitted)])

PeerEvents == {"ollama_response", "ollama_error"}

\* tags[from..to] is a sequence of pairs: ollama_request, then its
\* ollama_response or ollama_error
PeerPairs(tags, from, to) ==
    /\ (to - from + 1) % 2 = 0
    /\ \A k \in from..to :
          IF (k - from) % 2 = 0 THEN tags[k] = "ollama_request"
                                ELSE tags[k] \in PeerEvents

\* the shape the claim gives: client_request, peer pairs, one terminal event
OriginalShape(tags) ==
    /\ Len(tags) >= 2
    /\ tags[1] = "client_request"
    /\ tags[Len(tags)] \in {"server_response", "server_error"}
    /\ PeerPairs(tags, 2, Len(tags) - 1)

\* the shape the code gives: before the closing server_response there may
\* be one server_error
AmendedShape(tags) ==
    /\ Len(tags) >= 2
    /\ tags[1] = "client_request"
    /\ tags[Len(tags)] = "server_response"
    /\ IF Len(tags) >= 3 /\ tags[Len(tags) - 1] = "server_error"
       THEN PeerPairs(tags, 2, Len(tags) - 2)
       ELSE PeerPairs(tags, 2, Len(tags) - 1)

\* the events emitted so far are the start of a sequence of that shape
AmendedPrefix(tags) ==
    \/ tags = <<>>
    \/ /\ tags[1] = "client_request"
       /\ \A k \in 2..Len(tags) :
             \/ tags[k] = "ollama_request" /\ tags[k - 1] \in {"client_request"} \cup PeerEvents
             \/ tags[k] \in PeerEvents /\ tags[k - 1] = "ollama_request"
             \/ tags[k] = "server_error" /\ tags[k - 1] \in {"client_request"} \cup PeerEvents
             \/ /\ tags[k] = "server_response"
                /\ tags[k - 1] \in {"client_request", "server_error"} \cup PeerEvents
                /\ k = Len(tags)

Returned(t) == task[t].pc = "done"

Count(tags, S) == Cardinality({k \in 1..Len(tags) : tags[k] \in S})

HoldsPassword(text) == \E k \in 1..Len(text) : text[k] \in Passwords

\* a payload dict has a password key or a value that holds a password
PayloadLeaks(d) ==
    \/ "password" \in DOMAIN d
    \/ \E key \in DOMAIN d : HoldsPassword(d[key])

EventLeaks(e) ==
    \/ HasField(e, "request_payload") /\ PayloadLeaks(GetField(e, "request_payload"))
    \/ HasField(e, "response_payload") /\ PayloadLeaks(GetField(e, "response_payload"))
    \/ HasField(e, "detail") /\ HoldsPassword(GetField(e, "detail"))

\* C4: no event a handler has emitted, and no message an observer has
\* received, carries a password in its request_payload, response_payload
\* or detail.
C4_NoCredentialInEvents ==
    /\ \A t \in Tasks : \A k \in 1..Len(task[t].emitted) : ~EventLeaks(task[t].emitted[k])
    /\ \A w \in Sockets : \A k \in 1..Len(inbox[w]) : ~EventLeaks(inbox[w][k].msg)

\* a request that carried a password has returned after changing the
\* directory, and an observer has received both of its events
C4_Witness ==
    \E t \in Tasks, w \in Sockets :
        /\ Returned(t)
        /\ task[t].endpoint \in {"register", "update_password"}
        /\ task[t].status = 200
        /\ task[t].password \in Passwords
        /\ users_db[task[t].username] = task[t].password
        /\ Len(inbox[w]) = 2

Registered(w) == w \in Range(active_connections)

\* a step of a handler: everything broadcast does is one
HandlerStep == task' # task

\* in this step websocket_endpoint(w) leaves its read loop through an
\* except branch
ReadLoopEnds(w) ==
    /\ session[w] = "receiving"
    /\ transport[w] = "broken"
    /\ session'[w] = "closed"
    /\ disconnects'[w] = disconnects[w] + 1

\* C5: no step of a handler, so no step of a broadcast, changes the
\* registry, whether or not sends have failed; an observer leaves the
\* registry only in the step in which its own read loop ends; and once the
\* sends of a broadcast are done every connection it was sent to has the
\* message or is broken.
C5_BroadcastKeepsRegistry ==
    /\ [][HandlerStep => active_connections' = active_connections]_vars
    /\ [][\A w \in Sockets :
             Registered(w) /\ ~Registered(w)' => ReadLoopEnds(w)]_vars
    /\ [](\A t \in Tasks :
             GatherDone(t) =>
                 \A i \in 1..Len(task[t].results) :
                     \/ Delivered(task[t].snapshot[i], t, task[t].message)
                     \/ transport[task[t].snapshot[i]] = "broken")

\* a broadcast has returned after a send to a connection failed, that
\* connection is still registered, and another observer has the message
C5_Witness ==
    \E t \in Tasks, w \in Sockets, v \in Sockets :
        /\ Returned(t)
        /\ <<w, w>> \in task[t].errors
        /\ Registered(w)
        /\ v # w
        /\ Delivered(v, t, task[t].emitted[Len(task[t].emitted)])

\* C7: a registry that changes while the sends are in flight never makes
\* the broadcast raise, and once the sends are done every observer that is
\* still registered and whose send succeeded has the message.
C7_RegistryChangeInFlight ==
    \A t \in Tasks :
        /\ ~task[t].broadcast_raised
        /\ GatherDone(t) /\ active_connections # task[t].snapshot =>
              \A i \in 1..Len(task[t].results) :
                  Registered(task[t].snapshot[i]) /\ task[t].results[i] = "ok" =>
                      Delivered(task[t].snapshot[i], t, task[t].message)

\* a broadcast has returned although an observer left the registry while
\* its sends were in flight: the log line of the failed send names another
\* connection, and an observer that stayed has the message
C7_Witness ==
    \E t \in Tasks, w \in Sockets, v \in Sockets :
        /\ Returned(t)
        /\ <<v, w>> \in task[t].errors
        /\ v # w
        /\ ~Registered(w)
        /\ Delivered(v, t, task[t].emitted[Len(task[t].emitted)])

\* C8: a registered observer is one whose accept has returned (its session
\* is in the read loop; a session whose accept raised is never registered),
\* and an observer is registered in the step in which its accept returns and
\* leaves the registry only in a step in which its own read has raised on
\* a broken connection.
C8_RegistryMembership ==
    /\ [](\A w \in Sockets : Registered(w) => session[w] = "receiving")
    /\ [][\A w \in Sockets :
             ~Registered(w) /\ Registered(w)' =>
                 session[w] = "accepting" /\ transport[w] # "broken"
                 /\ session'[w] = "receiving"]_vars
    /\ [][\A w \in Sockets :
             Registered(w) /\ transport[w] # "broken" => Registered(w)']_vars
    /\ [][\A w \in Sockets :
             Registered(w) /\ session'[w] = session[w] => Registered(w)']_vars

\* one observer's handshake has failed, another has been registered and
\* removed after its connection broke
C8_Witness ==
    \E w \in Sockets, v \in Sockets :
        /\ session[w] = "failed"
        /\ ~Registered(w)
        /\ session[v] = "closed"
        /\ disconnects[v] = 1
        /\ ~Registered(v)

\* C10: for the registry as it is and any observer o, disconnect(o) called
\* again after disconnect(o) changes nothing, disconnect(o) for an absent o
\* changes nothing, no call raises, o is absent afterwards and every other
\* observer is registered afterwards exactly if it was before.
C10_DisconnectIdempotent ==
    \A o \in Sockets :
        LET once == disconnect(active_connections, o)
            twice == disconnect(once.conns, o)
        IN  /\ twice.conns = once.conns
            /\ ~once.raised
            /\ ~twice.raised
            /\ (~Registered(o) => once.conns = active_connections)
            /\ o \notin Range(once.conns)
            /\ \A v \in Sockets \ {o} : v \in Range(once.conns) <=> Registered(v)

\* disconnect has been called for an observer, which is now absent, while
\* another observer is registered
C10_Witness ==
    \E o \in Sockets, v \in Sockets :
        /\ disconnects[o] = 1
        /\ ~Registered(o)
        /\ v # o
        /\ Registered(v)

\* C6 as claimed: every request that has started returns, whatever the
\* observers do, so also when an observer's send never completes.
C6_RequestAlwaysReturns ==
    \A t \in Tasks : (task[t].pc # "idle") ~> Returned(t)

Transitions ==
    {<<"none", "accepting">>, <<"accepting", "receiving">>, <<"accepting", "failed">>,
     <<"receiving", "closed">>}

\* C9: a session moves only none -> accepting -> receiving -> closed (or
\* accepting -> failed); a session in its read loop whose connection has
\* broken ends; disconnect is called for it exactly once, when it ends; and
\* a session that has ended stays ended and its observer stays absent from
\* the registry.
C9_SessionLifecycle ==
    /\ [][\A w \in Sockets :
             session'[w] # session[w] => <<session[w], session'[w]>> \in Transitions]_vars
    /\ \A w \in Sockets :
          (session[w] = "receiving" /\ transport[w] = "broken") ~> (session[w] = "closed")
    /\ [](\A w \in Sockets :
             /\ disconnects[w] = (IF session[w] = "closed" THEN 1 ELSE 0)
             /\ session[w] = "closed" => ~Registered(w))
    /\ [][\A w \in Sockets :
             session[w] = "closed" => session'[w] = "closed" /\ ~Registered(w)']_vars

\* a session has ended after its connection broke while another observer
\* is still in its read loop
C9_Witness ==
    \E w \in Sockets, v \in Sockets :
        /\ session[w] = "closed"
        /\ transport[w] = "broken"
        /\ session[v] = "receiving"
        /\ active_connections = <<v>>

(***************************************************************************)
(* Registration (C11).                                                     *)
(***************************************************************************)
\* the handler of invocation t takes the step that follows its
\* client_request event
Decides(t) == task[t].pc = "req" /\ task'[t].pc # "req"

\* the two events of an invocation that has returned with the given status:
\* client_request, then server_response carrying that status
TwoEvents(t, status) ==
    /\ Tags(t) = <<"client_request", "server_response">>
    /\ GetField(task[t].emitted[2], "status") = status
    /\ task[t].status = status

\* C11: a register for a username the directory holds is answered 400
\* "Username already registered" and leaves the directory as it was; a
\* register for a new username is answered 200 and stores the credential.
\* Either way the invocation emits client_request, whose payload is the
\* username alone, then server_response with the status answered.
C11_DuplicateRegistration ==
    /\ [][\A t \in Tasks :
            task[t].endpoint = "register" /\ Decides(t) =>
                IF InDb(task[t].username, users_db)
                THEN /\ task'[t].status = 400
                     /\ task'[t].body = Detail("Username already registered")
                     /\ users_db' = users_db
                ELSE /\ task'[t].status = 200
                     /\ users_db' = DbSet(users_db, task[t].username, task[t].password)]_vars
    /\ [](\A t \in Tasks :
            task[t].endpoint = "register" /\ Returned(t) =>
                /\ task[t].status \in {200, 400}
                /\ TwoEvents(t, task[t].status)
                /\ GetField(task[t].emitted[1], "request_payload")
                      = [username |-> <<task[t].username>>])

\* a register for a username the directory held has returned 400 and the
\* directory still holds the credential it held
C11_Witness ==
    \E t \in Tasks :
        /\ task[t].endpoint = "register"
        /\ Returned(t)
        /\ task[t].status = 400
        /\ InDb(task[t].username, users_db)
        /\ users_db[task[t].username] # task[t].password

(***************************************************************************)
(* The peer's failures (C12, C13).                                         *)
(***************************************************************************)
IsPrefix(s, full) == Len(s) <= Len(full) /\ \A k \in 1..Len(s) : s[k] = full[k]

TransportErrorEvents ==
    <<"client_request", "ollama_request", "ollama_error", "server_response">>

\* C12: when the call to the peer ends in a transport error or a timeout the
\* caller gets 503 "LLM service unavailable"; the invocation emits
\* ollama_error after ollama_request and before its server_response, which
\* carries 503, and it emits no ollama_response.  No other outcome of the
\* peer is answered 503.
C12_PeerUnavailable ==
    \A t \in Tasks :
        /\ task[t].reply.kind = "request_error" =>
              /\ IsPrefix(Tags(t), TransportErrorEvents)
              /\ Len(Tags(t)) >= 3
              /\ Returned(t) =>
                    /\ Tags(t) = TransportErrorEvents
                    /\ task[t].status = 503
                    /\ task[t].body = Detail("LLM service unavailable")
                    /\ GetField(task[t].emitted[4], "status") = 503
        /\ task[t].status = 503 => task[t].reply.kind = "request_error"

\* an LLM request whose call to the peer failed in transport has returned
C12_Witness ==
    \E t \in Tasks :
        /\ Returned(t)
        /\ task[t].endpoint = "llm_generate"
        /\ task[t].reply = TransportError
        /\ task[t].status = 503

PeerStatusErrorEvents ==
    <<"client_request", "ollama_request", "ollama_response", "server_response">>

\* the peer has replied to invocation t with a status outside 200..299
PeerRefused(t) ==
    /\ task[t].reply.kind = "response"
    /\ ~(200 <= task[t].reply.status /\ task[t].reply.status <= 299)

RequestPath(tk) ==
    <<tk.pc, tk.endpoint, tk.username, tk.password, tk.prompt, tk.reply,
      tk.status, tk.body, tk.emitted>>

\* the invocation with its sends taken away
Quiet(tk) == [tk EXCEPT !.message = <<>>, !.snapshot = <<>>, !.results = <<>>]

\* the step of invocation t, had the registry been empty and no send made
AloneStep(t) ==
    LET tk == task[t]
    IN  CASE tk.pc = "idle" ->
                Step(client_request([IdleTask EXCEPT !.endpoint = task'[t].endpoint,
                                                     !.username = task'[t].username,
                                                     !.password = task'[t].password,
                                                     !.prompt = task'[t].prompt], <<>>),
                     users_db)
          [] tk.pc = "post" -> Step(on_post(tk, task'[t].reply, <<>>), users_db)
          [] tk.pc \in BroadcastPcs -> Continue(Quiet(tk), users_db, <<>>)

Writes(t) == task[t].endpoint \in {"register", "update_password"}

\* C15 as claimed: read-your-writes per username, for every password the
\* endpoints accept.  A register or update-password that is answered 200 has
\* stored its password; the credential stored for a username changes only
\* in the step of an update-password for that username that is answered 200,
\* whatever is done to other usernames; and a login that checks while its
\* password is the one stored is answered 200.
C15_ReadYourWrites ==
    [][/\ \A t \in Tasks :
             Writes(t) /\ Decides(t) /\ task'[t].status = 200 =>
                 /\ InDb(task[t].username, users_db')
                 /\ users_db'[task[t].username] = task[t].password
       /\ \A u \in DOMAIN users_db :
             ~(InDb(u, users_db') /\ users_db'[u] = users_db[u]) =>
                 \E t \in Tasks :
                     /\ Decides(t)
                     /\ task[t].endpoint = "update_password"
                     /\ task[t].username = u
                     /\ task'[t].status = 200
       /\ \A t \in Tasks :
             /\ task[t].endpoint = "login" /\ Decides(t)
             /\ InDb(task[t].username, users_db)
             /\ users_db[task[t].username] = task[t].password
             => task'[t].status = 200]_vars

(***************************************************************************)
(* The events (C16).                                                       *)
(***************************************************************************)
OptionalKeys ==
    <<"method", "url", "status", "request_payload", "response_payload", "detail">>

Rank(key) == CHOOSE r \in 1..Len(OptionalKeys) : OptionalKeys[r] = key

Keys(e) == [i \in 1..Len(e) |-> e[i][1]]

\* source first, timestamp last, the optional fields between them in the
\* order of format_log's parameters, none of them twice
InOrder(e) ==
    LET keys == Keys(e)
        n == Len(keys)
    IN  /\ n >= 2
        /\ keys[1] = "source"
        /\ keys[n] = "timestamp"
        /\ \A i \in 2..(n - 1) : keys[i] \in Range(OptionalKeys)
        /\ \A i, j \in 2..(n - 1) : i < j => Rank(keys[i]) < Rank(keys[j])

\* no field of the event is null or empty
NoEmptyField(e) ==
    \A i \in 1..Len(e) :
        CASE e[i][1] \in {"source", "method", "url", "timestamp"} -> e[i][2] # ""
          [] e[i][1] \in {"request_payload", "response_payload", "detail"} -> e[i][2] # <<>>
          [] e[i][1] = "status" -> e[i][2] \in Int

\* the arguments format_log is tried with: every optional parameter left
\* out (None), given a value, or given an empty one
LogArguments ==
    [method : {None, Some("POST"), Some("")},
     url : {None, Some("/login/")},
     status : {None, Some(200), Some(0)},
     request_payload : {None, Some([username |-> <<"alice">>]), Some(<<>>)},
     response_payload : {None, Some([detail |-> <<"User not found">>])},
     detail : {None, Some(<<"Error requesting Ollama: ", "exc">>), Some(<<>>)}]

LogEntry(a) ==
    Serialize(format_log("client_request", a.method, a.url, a.status,
                         a.request_payload, a.response_payload, a.detail))

\* format_log and the serialization on every argument of LogArguments: an
\* optional field that was not supplied is absent, a field that is present
\* has the value supplied, the order is kept and nothing is null or empty
FormatsAll ==
    \A a \in LogArguments :
        LET e == LogEntry(a)
        IN  /\ \A key \in DOMAIN a :
                  /\ a[key] = None => ~HasField(e, key)
                  /\ HasField(e, key) => GetField(e, key) = a[key][1]
            /\ InOrder(e)
            /\ NoEmptyField(e)

\* C16: in the serialized event of every call of format_log, an optional
\* field that was not supplied is absent, a field that is present has the
\* value supplied, and the fields are in the order source, optional fields
\* present, timestamp; every event a handler has emitted and every message
\* an observer has received is in that order and has no null or empty field.
\* (FormatsAll reads no variable, so it is evaluated before the first request
\* only.)
C16_OptionalFieldsOmitted ==
    /\ (\A t \in Tasks : task[t].pc = "idle") => FormatsAll
    /\ \A t \in Tasks : \A k \in 1..Len(task[t].emitted) :
          InOrder(task[t].emitted[k]) /\ NoEmptyField(task[t].emitted[k])
    /\ \A w \in Sockets : \A k \in 1..Len(inbox[w]) :
          InOrder(inbox[w][k].msg) /\ NoEmptyField(inbox[w][k].msg)

\* an observer has received an event built with the status, the payloads and
\* the detail not supplied: the client_request of a get-user
C16_Witness ==
    \E w \in Sockets : \E k \in 1..Len(inbox[w]) :
        /\ SourceOf(inbox[w][k].msg) = "client_request"
        /\ Keys(inbox[w][k].msg) = <<"source", "method", "url", "timestamp">>

\* the register invocations for username u that have passed their check
Registrations(u) ==
    {t \in Tasks : /\ task[t].endpoint = "register"
                   /\ task[t].username = u
                   /\ task[t].pc \in {"resp", "done"}}

\* the update-password invocations for username u that were answered 200
Updates(u) ==
    {t \in Tasks : /\ task[t].endpoint = "update_password"
                   /\ task[t].username = u
                   /\ task[t].pc \in {"resp", "done"}
                   /\ task[t].status = 200}

\* C17: of the register invocations for one new username, however they
\* interleave, exactly one is answered 200 and every other one 400, and the
\* credential stored is the one of the invocation answered 200 (until an
\* update-password replaces it).
C17_OneRegistrationWins ==
    \A u \in DirectoryUsernames :
        LET winners == {t \in Registrations(u) : task[t].status = 200}
        IN  /\ Cardinality(winners) <= 1
            /\ Registrations(u) # {} => Cardinality(winners) = 1
            /\ \A t \in Registrations(u) \ winners : task[t].status = 400
            /\ \A t \in winners :
                  /\ InDb(u, users_db)
                  /\ \/ users_db[u] = task[t].password
                     \/ \E t2 \in Updates(u) : users_db[u] = task[t2].password

\* two register invocations for the same username with different passwords
\* are in flight together, one answered 200 and the other 400, and the
\* directory holds the password of the first
C17_Witness ==
    \E t1, t2 \in Tasks :
        /\ t1 # t2
        /\ task[t1].endpoint = "register" /\ task[t2].endpoint = "register"
        /\ task[t1].username = task[t2].username
        /\ task[t1].password # task[t2].password
        /\ task[t1].pc = "resp" /\ task[t2].pc = "resp"
        /\ task[t1].status = 200 /\ task[t2].status = 400
        /\ users_db[task[t1].username] = task[t1].password

(***************************************************************************)
(* The log lines of broadcast (C18).                                       *)
(***************************************************************************)
\* C18 as claimed: every log line that broadcast writes for a failed send
\* names the connection whose send failed, also when the registry has
\* changed while the sends were in flight.
C18_FailureAttribution ==
    \A t \in Tasks : \A line \in task[t].errors : line[1] = line[2]

(***************************************************************************)
(* The order of delivery (C19).                                            *)
(***************************************************************************)
\* the messages of invocation t that observer w has received, in the order
\* of their arrival
Received(w, t) ==
    LET mine == SelectSeq(inbox[w], LAMBDA m : m.task = t)
    IN  [k \in 1..Len(mine) |-> mine[k].msg]

\* the position of an event among those that invocation t has emitted
Position(t, e) == CHOOSE k \in 1..Len(task[t].emitted) : task[t].emitted[k] = e

\* C19: every observer receives the events of one invocation in the order in
\* which the invocation emitted them, however the invocation interleaves
\* with others; and an observer that was registered before the invocation's
\* first event and whose sends have all succeeded has, when the invocation
\* returns, received all of its events in that order.
C19_PerInvocationOrder ==
    \A w \in Sockets, t \in Tasks :
        LET got == Received(w, t)
        IN  /\ \A k \in 1..Len(got) : got[k] \in Range(task[t].emitted)
            /\ \A i, j \in 1..Len(got) :
                  i < j => Position(t, got[i]) < Position(t, got[j])
            /\ /\ Returned(t)
               /\ transport[w] = "open"
               /\ got # <<>>
               /\ got[1] = task[t].emitted[1]
               => got = task[t].emitted

\* two invocations, one of them with more than two events, have returned
\* and an observer has received the events of both, interleaved
C19_Witness ==
    \E w \in Sockets, t1, t2 \in Tasks :
        /\ t1 # t2
        /\ Returned(t1) /\ Returned(t2)
        /\ Len(task[t1].emitted) > 2
        /\ Received(w, t1) = task[t1].emitted
        /\ Received(w, t2) = task[t2].emitted
        /\ inbox[w][1].task = t1
        /\ inbox[w][2].task = t2
        /\ inbox[w][3].task = t1

(***************************************************************************)
(* The endpoints that only read the directory (C20).                       *)
(***************************************************************************)
\* invocation t is of an endpoint that must not write the directory
ReadOnly(t) == task[t].endpoint \in {"llm_generate", "login", "get_user"}

\* C20: an LLM generate whose username is not in the directory when the
\* handler checks is answered 401, emits client_request and then a
\* server_response with status 401 and nothing else, and never calls the
\* peer; and no step of an LLM generate, a login or a get-user changes the
\* directory.
C20_UnknownUserRejected ==
    /\ [][\A t \in Tasks :
            /\ task[t].endpoint = "llm_generate" /\ Decides(t)
               /\ ~InDb(task[t].username, users_db)
               => /\ task'[t].status = 401
                  /\ task'[t].body = Detail("User not found or not authenticated")
                  /\ task'[t].pc = "resp"
            /\ ReadOnly(t) /\ task'[t] # task[t] => users_db' = users_db
            /\ task[t].pc = "idle" /\ ReadOnly(t)' /\ task'[t] # task[t]
               => users_db' = users_db]_vars
    /\ [](\A t \in Tasks :
            task[t].endpoint = "llm_generate" /\ task[t].status = 401 =>
                /\ IsPrefix(Tags(t), <<"client_request", "server_response">>)
                /\ Len(Tags(t)) = 2
                /\ GetField(task[t].emitted[2], "status") = 401
                /\ task[t].reply = NoReply
                /\ task[t].pc \in {"resp", "done"})

\* an LLM generate for a username the directory does not hold has returned
C20_Witness ==
    \E t \in Tasks :
        /\ Returned(t)
        /\ task[t].endpoint = "llm_generate"
        /\ task[t].status = 401
        /\ ~InDb(task[t].username, users_db)

====
